---- MODULE Spec2Model ----
(***************************************************************************)
(* Model of homework.py: a poller that asks the homework-status API for    *)
(* the state of a work item every RETRY_TIME seconds and reports status    *)
(* changes and failures to a Telegram chat.                                *)
(*                                                                         *)
(* Texts are modelled as sequences of strings: the fixed part of a format  *)
(* string followed by the values it interpolates.  The Russian texts of    *)
(* the source are written in English.                                      *)
(***************************************************************************)
EXTENDS Integers, Sequences, FiniteSets, TLC

(***************************************************************************)
(* Bounds of the model                                                     *)
(***************************************************************************)
\* longest 'homeworks' list a response carries
MaxItems == 2
\* number of poll cycles whose observations are logged (the loop itself
\* keeps running after that)
MaxCycles == 5
\* the requests issued between two sleeps are counted up to this number
FetchCap == 2

(***************************************************************************)
(* Program constants                                                       *)
(***************************************************************************)
RETRY_TIME == 600
HTTP_OK == 200

\* Python's None, as held by status_ok (a status code otherwise)
None == "None"
\* Python's None, as held by status_non (a message otherwise)
NoMessage == <<>>
\* a key that a dict does not have
MISSING == "<missing>"
\* no exception
NoError == <<>>
\* an optional integer is the set of its values: empty when there is none
NoDate == {}
NoRequest == {}
Some(n) == {n}

HOMEWORK_STATUSES ==
    [reviewing |-> "The work was taken for review.",
     rejected  |-> "The work is reviewed: the reviewer has remarks.",
     approved  |-> "The work is reviewed: the reviewer liked everything."]

KnownStatuses == DOMAIN HOMEWORK_STATUSES

(***************************************************************************)
(* Inputs: environment, replies of the API, outcome of a delivery          *)
(***************************************************************************)
\* value of an environment variable: unset, empty or set
TokenValues == {None, "", "token"}

\* int(time()) when main starts
Times == {300}

\* status codes the API may put in a record
ApiStatuses == KnownStatuses \cup {"archived"}

\* an element of 'homeworks': its 'homework_name' and 'status' entries,
\* either of which may be absent (both absent: the empty dict)
Items == [homework_name : {"hw1", MISSING}, status : ApiStatuses \cup {MISSING}]

\* the elements that follow the first one in the lists the poll loop receives
TailItems == {[homework_name |-> "hw2", status |-> "approved"]}

RECURSIVE SeqsUpTo(_, _)
SeqsUpTo(S, n) ==
    IF n = 0 THEN {<<>>}
    ELSE LET shorter == SeqsUpTo(S, n - 1)
         IN  shorter \cup {Append(s, x) : s \in shorter, x \in S}

\* every list of at most MaxItems elements
AllLists == SeqsUpTo(Items, MaxItems)

\* the lists the poll loop receives: any first element, then TailItems
LoopLists ==
    {<<>>} \cup {<<i>> \o t : i \in Items, t \in SeqsUpTo(TailItems, MaxItems - 1)}

Dates == {100, 200}

\* the value under 'homeworks' in a decoded response
HomeworksValues(lists) ==
    {[kind |-> k, items |-> <<>>] : k \in {"absent", "null", "nonlist"}}
    \cup {[kind |-> "list", items |-> l] : l \in lists}

\* a decoded response: a dict with optional 'homeworks' and 'current_date'
Responses(lists) ==
    [homeworks : HomeworksValues(lists),
     current_date : {Some(d) : d \in Dates} \cup {NoDate}]

NoResponse == [homeworks |-> [kind |-> "absent", items |-> <<>>], current_date |-> NoDate]

\* what requests.get meets: no connection, or an HTTP answer with a status
\* code and a body that decodes as JSON to 'json' or does not decode
Replies(lists) ==
    {[kind |-> "transport", code |-> 0, json |-> NoResponse]}
    \cup {[kind |-> "http", code |-> 500, json |-> NoResponse]}
    \cup {[kind |-> "undecodable", code |-> HTTP_OK, json |-> NoResponse]}
    \cup {[kind |-> "http", code |-> HTTP_OK, json |-> r] : r \in Responses(lists)}

VARIABLES
    tokens,             \* PRACTICUM_TOKEN, TELEGRAM_TOKEN, TELEGRAM_CHAT_ID
    pc,                 \* position in main
    current_timestamp,  \* main's cursor
    status_non,         \* main's status_non
    status_ok,          \* main's status_ok
    from_date,          \* 'from_date' of the last request issued, if any
    pending,            \* exception propagating out of the try statement
    slept,              \* sleep(RETRY_TIME) has been called
    sent,               \* bot.send_message calls of the current cycle
    cur,                \* what the current cycle observed
    prev,               \* what the previous cycle observed
    prevSucc,           \* list seen by the last cycle that raised nothing
    clean,              \* no cycle so far has raised
    lastDate,           \* current_date of the last response that had one, if any
    logging,            \* every cycle so far is in 'seen'
    seen,               \* statuses of the first cycles, while all succeeded
    notifiedAt,         \* for each of them: was a notification sent
    response,           \* argument of check_response (SpecCheckResponse)
    result,             \* its outcome (SpecCheckResponse)
    fetches,            \* requests issued since the last sleep
    slept_for,          \* seconds of the last sleep, if any
    args,               \* a call of a function on its own (SpecCalls)
    returned            \* what that call returned (SpecCalls)

vars == <<tokens, pc, current_timestamp, status_non, status_ok, from_date,
          pending, slept, sent, cur, prev, prevSucc, clean,
          lastDate, logging, seen, notifiedAt, response, result,
          fetches, slept_for, args, returned>>

(***************************************************************************)
(* send_message (lines 32-45).  'delivered' is the outcome of              *)
(* bot.send_message: a telegram.TelegramError is caught and raised again   *)
(* with a fixed text.                                                      *)
(***************************************************************************)
send_message(message, delivered) ==
    [ok    |-> delivered,
     error |-> IF delivered THEN NoError ELSE <<"Error sending the message!">>]

(***************************************************************************)
(* get_api_answer (lines 48-81)                                            *)
(***************************************************************************)
\* line 55: timestamp = current_timestamp or int(time())
RequestTimestamp(timestamp, now) ==
    IF timestamp # 0 THEN timestamp ELSE now

\* str() of what the handler of line 77 raises.  When requests.get itself
\* failed, 'response' is unbound and building the text raises
\* UnboundLocalError instead.
ApiErrorText(reply) ==
    IF reply.kind = "transport"
    THEN <<"local variable 'response' referenced before assignment">>
    ELSE <<"[API request] Status:", ToString(reply.code), "Error received:",
           "[API request] Status other than HTTP 200:", ToString(reply.code)>>

\* line 76 calls JSONDecodeError with one argument of the three it needs,
\* which raises TypeError
DecodeErrorText ==
    <<"__init__() missing 2 required positional arguments: 'doc' and 'pos'">>

\* exceptions.ErrorMessage, of the module exceptions, derives from Exception:
\* a status other than 200 is a recoverable error
ErrorMessageIsException == TRUE

\* 'caught' tells whether 'except Exception' catches what is raised
get_api_answer(timestamp, now, reply) ==
    LET from == RequestTimestamp(timestamp, now)
    IN  CASE reply.kind = "transport" ->
                [ok |-> FALSE, value |-> NoResponse, from_date |-> from,
                 error |-> ApiErrorText(reply), caught |-> TRUE]
          [] reply.kind = "http" /\ reply.code # HTTP_OK ->
                [ok |-> FALSE, value |-> NoResponse, from_date |-> from,
                 error |-> ApiErrorText(reply),
                 caught |-> ErrorMessageIsException]
          [] reply.kind = "undecodable" ->
                [ok |-> FALSE, value |-> NoResponse, from_date |-> from,
                 error |-> DecodeErrorText, caught |-> TRUE]
          [] OTHER ->
                [ok |-> TRUE, value |-> reply.json, from_date |-> from,
                 error |-> NoError, caught |-> TRUE]

(***************************************************************************)
(* check_response (lines 84-99)                                            *)
(***************************************************************************)
\* a variant that takes the empty list for a malformed response
check_response_rejecting_empty(r) ==
    CASE r.homeworks.kind = "absent" ->
            [ok |-> FALSE, value |-> <<>>,
             error |-> <<"[Correctness] key error:", "'homeworks'">>]
      [] r.homeworks.kind \in {"null", "nonlist"} \/ r.homeworks.items = <<>> ->
            [ok |-> FALSE, value |-> <<>>,
             error |-> <<"[Correctness] Type error.">>]
      [] OTHER ->
            [ok |-> TRUE, value |-> r.homeworks.items, error |-> NoError]

check_response(r) ==
    CASE r.homeworks.kind = "absent" ->
            [ok |-> FALSE, value |-> <<>>,
             error |-> <<"[Correctness] key error:", "'homeworks'">>]
      [] r.homeworks.kind \in {"null", "nonlist"} ->
            [ok |-> FALSE, value |-> <<>>,
             error |-> <<"[Correctness] Type error.">>]
      [] OTHER ->
            [ok |-> TRUE, value |-> r.homeworks.items, error |-> NoError]

(***************************************************************************)
(* parse_status (lines 102-128)                                            *)
(***************************************************************************)
\* len(homework) of a record
ItemLen(homework) ==
    (IF homework.homework_name = MISSING THEN 0 ELSE 1)
    + (IF homework.status = MISSING THEN 0 ELSE 1)

StatusKeyError == <<"[Status] ERROR: key error">>

\* parse_status applied to one element of the list
parse_status(homework) ==
    IF ItemLen(homework) = 0
    THEN [ok |-> TRUE, error |-> NoError,
          value |-> <<"[Status] The project is not under review:", "{}">>]
    ELSE IF homework.homework_name = MISSING \/ homework.status = MISSING
    THEN [ok |-> FALSE, value |-> NoMessage, error |-> StatusKeyError]
    ELSE IF homework.status \in KnownStatuses
    THEN [ok |-> TRUE, error |-> NoError,
          value |-> <<"The review status of the work has changed",
                      homework.homework_name,
                      HOMEWORK_STATUSES[homework.status]>>]
    ELSE [ok |-> FALSE, value |-> NoMessage, error |-> StatusKeyError]

\* parse_status applied to the empty list itself (lines 174-175)
parse_status_of_list(homeworks) ==
    <<"[Status] The project is not under review:", "[]">>

(***************************************************************************)
(* check_tokens (lines 131-152)                                            *)
(***************************************************************************)
\* 'not value' of line 144
Falsy(value) == value = None \/ value = ""

\* a variant that forgets the chat id
check_tokens_without_chat_id(t) ==
    IF Falsy(t.PRACTICUM_TOKEN) THEN FALSE
    ELSE IF Falsy(t.TELEGRAM_TOKEN) THEN FALSE
    ELSE TRUE

check_tokens(t) ==
    IF Falsy(t.PRACTICUM_TOKEN) THEN FALSE
    ELSE IF Falsy(t.TELEGRAM_TOKEN) THEN FALSE
    ELSE IF Falsy(t.TELEGRAM_CHAT_ID) THEN FALSE
    ELSE TRUE

(***************************************************************************)
(* main (lines 155-192)                                                    *)
(***************************************************************************)
\* the texts main hands to send_message
NotUnderReviewText(homeworks) == <<"The work is not under review:", "[]">>
VerdictText(status) == <<HOMEWORK_STATUSES[status]>>
FailureText(error) == <<"Failure in the program:">> \o error

\* what a cycle has observed before anything happened in it
BlankCycle == [list |-> "na", status |-> "na", error |-> NoError, stage |-> "none"]
NoCycle ==
    [list |-> "na", status |-> "na", error |-> NoError, attempts |-> 0,
     failures |-> 0]
NoResult == [ok |-> FALSE, value |-> <<>>, error |-> NoError]
NoSleep == {}
NoCall == [fn |-> "none"]

Init ==
    /\ tokens \in [PRACTICUM_TOKEN : TokenValues, TELEGRAM_TOKEN : TokenValues,
                   TELEGRAM_CHAT_ID : TokenValues]
    /\ pc = "start"
    /\ current_timestamp = 0
    /\ status_non = NoMessage
    /\ status_ok = None
    /\ from_date = NoRequest
    /\ pending = FALSE
    /\ slept = FALSE
    /\ sent = <<>>
    /\ cur = BlankCycle
    /\ prev = NoCycle
    /\ prevSucc = "none"
    /\ clean = TRUE
    /\ lastDate = NoDate
    /\ logging = TRUE
    /\ seen = <<>>
    /\ notifiedAt = <<>>
    /\ response = NoResponse
    /\ result = NoResult
    /\ fetches = 0
    /\ slept_for = NoSleep
    /\ args = NoCall
    /\ returned = NoCall

\* lines 161-168: the tokens are checked, then the bot and the loop's
\* variables are set up
Start ==
    /\ pc = "start"
    /\ IF check_tokens(tokens)
       THEN /\ pc' = "loop"
            /\ current_timestamp' \in Times
       ELSE /\ pc' = "config_error"
            /\ UNCHANGED current_timestamp
    /\ UNCHANGED <<tokens, status_non, status_ok, from_date, pending, slept,
                   sent, cur, prev, prevSucc, clean, lastDate, logging,
                   seen, notifiedAt, response, result, fetches, slept_for,
                   args, returned>>

\* a variant that reports every empty list
EmptyChangedAlways(homeworks, non) == TRUE

\* line 174: does the text for the empty list differ from status_non
EmptyChanged(homeworks, non) == parse_status_of_list(homeworks) # non

\* a variant without the test of line 180: any status that differs from
\* status_ok counts as a change
StatusChangedAnyStatus(status, ok) == status # ok

\* a variant that reports the status of every cycle
StatusChangedAlways(status, ok) == status \in KnownStatuses

\* lines 180-181: is the status one of the table and not status_ok
StatusChanged(status, ok) == status \in KnownStatuses /\ status # ok

\* a variant that looks at the last element
LastItem(homeworks) == homeworks[Len(homeworks)]

\* lines 180-184: homeworks[0], the one element the loop looks at
FirstItem(homeworks) == homeworks[1]

\* a variant that does not record the status
RecordedStatusForgotten(status, ok) == ok

\* line 182: status_ok = homeworks[0]['status'], before parse_status and
\* send_message are called
RecordedStatus(status, ok) == status

\* lines 173-186: what the loop does with the validated list.  The outcome
\* is the new status_non and status_ok, the bot.send_message calls made and
\* the exception raised, if any.
Inspect(homeworks, non, ok, delivered) ==
    IF Len(homeworks) = 0
    THEN IF EmptyChanged(homeworks, non)
         THEN LET s == send_message(NotUnderReviewText(homeworks), delivered)
              IN  [status_non |-> parse_status_of_list(homeworks),
                   status_ok |-> ok,
                   sent |-> <<[text |-> NotUnderReviewText(homeworks),
                               delivered |-> s.ok]>>,
                   error |-> s.error,
                   stage |-> IF s.ok THEN "none" ELSE "notify"]
         ELSE [status_non |-> non, status_ok |-> ok, sent |-> <<>>,
               error |-> NoError, stage |-> "none"]
    ELSE LET first == FirstItem(homeworks)
         IN  IF first.status = MISSING
             THEN [status_non |-> non, status_ok |-> ok, sent |-> <<>>,
                   error |-> <<"'status'">>, stage |-> "inspect"]
             ELSE IF StatusChanged(first.status, ok)
             THEN LET p == parse_status(first)
                      s == send_message(VerdictText(first.status), delivered)
                  IN  IF ~p.ok
                      THEN [status_non |-> non,
                            status_ok |-> RecordedStatus(first.status, ok),
                            sent |-> <<>>, error |-> p.error,
                            stage |-> "translate"]
                      ELSE [status_non |-> non,
                            status_ok |-> RecordedStatus(first.status, ok),
                            sent |-> <<[text |-> VerdictText(first.status),
                                        delivered |-> s.ok]>>,
                            error |-> s.error,
                            stage |-> IF s.ok THEN "none" ELSE "notify"]
             ELSE [status_non |-> non, status_ok |-> ok, sent |-> <<>>,
                   error |-> NoError, stage |-> "none"]

\* the list a cycle saw: "empty", "nonempty", or "na" when it got none
ListKind(homeworks) == IF Len(homeworks) = 0 THEN "empty" ELSE "nonempty"
FirstStatus(homeworks) ==
    IF Len(homeworks) = 0 THEN "na" ELSE FirstItem(homeworks).status

\* lines 170-186: the body of the try statement
Try ==
    /\ pc = "loop"
    /\ \E reply \in Replies(LoopLists), now \in Times, delivered \in BOOLEAN :
         LET api == get_api_answer(current_timestamp, now, reply)
             chk == check_response(api.value)
             out == Inspect(chk.value, status_non, status_ok, delivered)
         IN  /\ from_date' = Some(api.from_date)
             /\ lastDate' = IF api.ok /\ api.value.current_date # NoDate
                            THEN api.value.current_date ELSE lastDate
             /\ IF ~api.ok
                THEN /\ cur' = [BlankCycle EXCEPT !.error = api.error,
                                                  !.stage = "fetch"]
                     /\ sent' = <<>>
                     /\ UNCHANGED <<status_non, status_ok>>
                ELSE IF ~chk.ok
                THEN /\ cur' = [BlankCycle EXCEPT !.error = chk.error,
                                                  !.stage = "validate"]
                     /\ sent' = <<>>
                     /\ UNCHANGED <<status_non, status_ok>>
                ELSE /\ cur' = [list |-> ListKind(chk.value),
                                status |-> FirstStatus(chk.value),
                                error |-> out.error, stage |-> out.stage]
                     /\ sent' = out.sent
                     /\ status_non' = out.status_non
                     /\ status_ok' = out.status_ok
             /\ pending' = ~api.caught
             /\ pc' = IF cur'.error = NoError \/ ~api.caught
                      THEN "sleep" ELSE "except"
    /\ fetches' = IF fetches < FetchCap THEN fetches + 1 ELSE fetches
    /\ UNCHANGED <<tokens, current_timestamp, slept, prev, prevSucc,
                   clean, logging, seen, notifiedAt, response, result,
                   slept_for, args, returned>>

\* a variant whose handler catches KeyError alone: any other exception
\* leaves the try statement unreported
HandleErrorKeyErrorOnly ==
    /\ pc = "except"
    /\ IF cur.stage \in {"translate", "inspect"}
       THEN \E delivered \in BOOLEAN :
              LET s == send_message(FailureText(cur.error), delivered)
              IN  /\ sent' = Append(sent, [text |-> FailureText(cur.error),
                                           delivered |-> s.ok])
                  /\ pending' = ~s.ok
       ELSE /\ pending' = TRUE
            /\ UNCHANGED sent
    /\ pc' = "sleep"
    /\ UNCHANGED <<tokens, current_timestamp, status_non, status_ok, from_date,
                   slept, cur, prev, prevSucc, clean, lastDate, logging,
                   seen, notifiedAt, response, result, fetches, slept_for,
                   args, returned>>

\* a variant whose sleep is the last statement of the try block instead of
\* a finally clause: after a reported exception the loop goes on at once
HandleErrorWithoutFinally ==
    /\ pc = "except"
    /\ \E delivered \in BOOLEAN :
         LET s == send_message(FailureText(cur.error), delivered)
         IN  /\ sent' = Append(sent, [text |-> FailureText(cur.error),
                                      delivered |-> s.ok])
             /\ pending' = ~s.ok
             /\ pc' = IF s.ok THEN "loop" ELSE "sleep"
    /\ UNCHANGED <<tokens, current_timestamp, status_non, status_ok, from_date,
                   slept, cur, prev, prevSucc, clean, lastDate, logging,
                   seen, notifiedAt, response, result, fetches, slept_for,
                   args, returned>>

\* lines 187-190: the handler reports the exception; an exception of
\* send_message leaves the try statement
HandleError ==
    /\ pc = "except"
    /\ \E delivered \in BOOLEAN :
         LET s == send_message(FailureText(cur.error), delivered)
         IN  /\ sent' = Append(sent, [text |-> FailureText(cur.error),
                                      delivered |-> s.ok])
             /\ pending' = ~s.ok
    /\ pc' = "sleep"
    /\ UNCHANGED <<tokens, current_timestamp, status_non, status_ok, from_date,
                   slept, cur, prev, prevSucc, clean, lastDate, logging,
                   seen, notifiedAt, response, result, fetches, slept_for,
                   args, returned>>

\* number of bot.send_message calls that raised
Failures(calls) == Cardinality({i \in 1..Len(calls) : ~calls[i].delivered})

\* the cycle raised nothing and its first item has a status of the table
StatusCycle(c) ==
    c.error = NoError /\ c.list = "nonempty" /\ c.status \in KnownStatuses

\* lines 191-192 and 169: the finally clause sleeps; then the loop goes on,
\* unless an exception is leaving the try statement
Sleep ==
    /\ pc = "sleep"
    /\ pc' = IF pending THEN "crashed" ELSE "loop"
    /\ slept' = TRUE
    /\ slept_for' = Some(RETRY_TIME)
    /\ fetches' = 0
    /\ prev' = [list |-> cur.list, status |-> cur.status, error |-> cur.error,
                attempts |-> Len(sent), failures |-> Failures(sent)]
    /\ prevSucc' = IF cur.error = NoError THEN cur.list ELSE prevSucc
    /\ clean' = (clean /\ cur.error = NoError)
    /\ IF logging /\ Len(seen) < MaxCycles /\ StatusCycle(cur)
       THEN /\ seen' = Append(seen, cur.status)
            /\ notifiedAt' = Append(notifiedAt, Len(sent) > 0)
            /\ logging' = TRUE
       ELSE /\ seen' = <<>>
            /\ notifiedAt' = <<>>
            /\ logging' = FALSE
    /\ cur' = BlankCycle
    /\ sent' = <<>>
    /\ UNCHANGED <<tokens, current_timestamp, status_non, status_ok, from_date,
                   pending, lastDate, response, result, args, returned>>

Next == Start \/ Try \/ HandleError \/ Sleep

Spec == Init /\ [][Next]_vars

\* The log of the first cycles is an observer of main, not a part of it;
\* here it is switched off.
InitUnlogged ==
    /\ tokens \in [PRACTICUM_TOKEN : TokenValues, TELEGRAM_TOKEN : TokenValues,
                   TELEGRAM_CHAT_ID : TokenValues]
    /\ pc = "start"
    /\ current_timestamp = 0
    /\ status_non = NoMessage
    /\ status_ok = None
    /\ from_date = NoRequest
    /\ pending = FALSE
    /\ slept = FALSE
    /\ sent = <<>>
    /\ cur = BlankCycle
    /\ prev = NoCycle
    /\ prevSucc = "none"
    /\ clean = TRUE
    /\ lastDate = NoDate
    /\ logging = FALSE
    /\ seen = <<>>
    /\ notifiedAt = <<>>
    /\ response = NoResponse
    /\ result = NoResult
    /\ fetches = 0
    /\ slept_for = NoSleep
    /\ args = NoCall
    /\ returned = NoCall

\* the interpreter takes the next step of main whenever there is one, and
\* sleep(RETRY_TIME) returns
FairSpec == InitUnlogged /\ [][Next]_vars /\ WF_vars(Next)

(***************************************************************************)
(* check_response on its own: every response is given to it                *)
(***************************************************************************)
InitCheckResponse ==
    /\ tokens = [PRACTICUM_TOKEN |-> "token", TELEGRAM_TOKEN |-> "token",
                 TELEGRAM_CHAT_ID |-> "token"]
    /\ pc = "check_response"
    /\ current_timestamp = 0
    /\ status_non = NoMessage
    /\ status_ok = None
    /\ from_date = NoRequest
    /\ pending = FALSE
    /\ slept = FALSE
    /\ sent = <<>>
    /\ cur = BlankCycle
    /\ prev = NoCycle
    /\ prevSucc = "none"
    /\ clean = TRUE
    /\ lastDate = NoDate
    /\ logging = TRUE
    /\ seen = <<>>
    /\ notifiedAt = <<>>
    /\ response \in Responses(AllLists)
    /\ result = NoResult
    /\ fetches = 0
    /\ slept_for = NoSleep
    /\ args = NoCall
    /\ returned = NoCall

CallCheckResponse ==
    /\ pc = "check_response"
    /\ result' = check_response(response)
    /\ pc' = "checked"
    /\ UNCHANGED <<tokens, current_timestamp, status_non, status_ok, from_date,
                   pending, slept, sent, cur, prev, prevSucc, clean, lastDate,
                   logging, seen, notifiedAt, response, fetches, slept_for,
                   args, returned>>

NextCheckResponse == CallCheckResponse

SpecCheckResponse == InitCheckResponse /\ [][NextCheckResponse]_vars

(***************************************************************************)
(* get_api_answer, parse_status and the body of the try statement on their *)
(* own: each is called once with arguments of its domain                   *)
(***************************************************************************)
\* the cursors get_api_answer is called with: zero and a later moment
Cursors == {0, 100}

\* the values status_non takes: None and the text of line 175
StatusNonValues == {NoMessage} \cup {parse_status_of_list(<<>>)}

\* the values status_ok is compared with on line 181
StatusOkValues == {None} \cup KnownStatuses

Calls ==
    {[fn |-> "parse_status", homework |-> i] : i \in Items}
    \cup {[fn |-> "get_api_answer", current_timestamp |-> c, now |-> n,
           reply |-> r] :
             c \in Cursors, n \in Times, r \in Replies(LoopLists)}
    \cup {[fn |-> "try_body", homeworks |-> l, status_non |-> n,
           status_ok |-> o, delivered |-> d] :
             l \in AllLists, n \in StatusNonValues, o \in StatusOkValues,
             d \in BOOLEAN}

InitCalls ==
    /\ tokens = [PRACTICUM_TOKEN |-> "token", TELEGRAM_TOKEN |-> "token",
                 TELEGRAM_CHAT_ID |-> "token"]
    /\ pc = "call"
    /\ current_timestamp = 0
    /\ status_non = NoMessage
    /\ status_ok = None
    /\ from_date = NoRequest
    /\ pending = FALSE
    /\ slept = FALSE
    /\ sent = <<>>
    /\ cur = BlankCycle
    /\ prev = NoCycle
    /\ prevSucc = "none"
    /\ clean = TRUE
    /\ lastDate = NoDate
    /\ logging = TRUE
    /\ seen = <<>>
    /\ notifiedAt = <<>>
    /\ response = NoResponse
    /\ result = NoResult
    /\ fetches = 0
    /\ slept_for = NoSleep
    /\ args \in Calls
    /\ returned = NoCall

CallParseStatus ==
    /\ pc = "call"
    /\ args.fn = "parse_status"
    /\ returned' = parse_status(args.homework)
    /\ pc' = "returned"
    /\ UNCHANGED <<tokens, current_timestamp, status_non, status_ok, from_date,
                   pending, slept, sent, cur, prev, prevSucc, clean, lastDate,
                   logging, seen, notifiedAt, response, result, fetches,
                   slept_for, args>>

CallGetApiAnswer ==
    /\ pc = "call"
    /\ args.fn = "get_api_answer"
    /\ LET api == get_api_answer(args.current_timestamp, args.now, args.reply)
       IN  /\ returned' = api
           /\ from_date' = Some(api.from_date)
    /\ fetches' = fetches + 1
    /\ pc' = "returned"
    /\ UNCHANGED <<tokens, current_timestamp, status_non, status_ok,
                   pending, slept, sent, cur, prev, prevSucc, clean, lastDate,
                   logging, seen, notifiedAt, response, result,
                   slept_for, args>>

CallTryBody ==
    /\ pc = "call"
    /\ args.fn = "try_body"
    /\ returned' = Inspect(args.homeworks, args.status_non, args.status_ok,
                           args.delivered)
    /\ pc' = "returned"
    /\ UNCHANGED <<tokens, current_timestamp, status_non, status_ok, from_date,
                   pending, slept, sent, cur, prev, prevSucc, clean, lastDate,
                   logging, seen, notifiedAt, response, result, fetches,
                   slept_for, args>>

NextCalls == CallParseStatus \/ CallGetApiAnswer \/ CallTryBody

SpecCalls == InitCalls /\ [][NextCalls]_vars

(***************************************************************************)
(* Properties                                                              *)
(***************************************************************************)
\* the cycle at hand has run its try statement and its handler, if any
CycleDone == pc = "sleep"

\* the elements of a sequence
Range(seq) == {seq[i] : i \in 1..Len(seq)}

\* the failure reports delivered in the cycle
FailureReports ==
    {i \in 1..Len(sent) :
        sent[i].text = FailureText(cur.error) /\ sent[i].delivered}

\* C1: when a cycle fails with the same error text as the cycle before it,
\* the repeat is suppressed: no failure report is sent in it.
C1_RepeatedErrorSuppressed ==
    (CycleDone /\ cur.stage \in {"fetch", "validate", "translate"}
               /\ prev.error = cur.error)
        => FailureReports = {}

\* C2: in a run whose cycles all succeed with a non-empty list whose first
\* item has a status of the table, cycle i sends a notification if and only
\* if it is the first cycle or its status differs from that of cycle i-1.
C2_TransitionDetection ==
    /\ Len(notifiedAt) = Len(seen)
    /\ \A i \in 1..Len(seen) :
         notifiedAt[i] <=> (i = 1 \/ seen[i] # seen[i - 1])

\* C2, reached: [reviewing, reviewing, approved, approved, rejected] has
\* been observed, with notifications in the cycles 0, 2 and 4
C2_Witness ==
    /\ seen = <<"reviewing", "reviewing", "approved", "approved", "rejected">>
    /\ notifiedAt = <<TRUE, FALSE, TRUE, FALSE, TRUE>>

\* C3: in a run of successful cycles, a cycle whose list is empty while the
\* list of the cycle before it was not, and a cycle whose list is non-empty
\* while that list was empty, sends exactly one notification.  The
\* non-empty lists meant are those whose first item has a status of the
\* table.
C3_EmptyTransitionNotifies ==
    (CycleDone /\ clean /\ cur.error = NoError
       /\ \/ /\ cur.list = "empty"
             /\ prev.list = "nonempty" /\ prev.status \in KnownStatuses
          \/ /\ cur.list = "nonempty" /\ cur.status \in KnownStatuses
             /\ prev.list = "empty")
        => Len(sent) = 1

\* C4: a cycle that receives the empty list right after a cycle that
\* received the empty list sends nothing.
C4_RepeatedEmptySilent ==
    (pc \in {"sleep", "except"} /\ cur.list = "empty" /\ prev.list = "empty")
        => sent = <<>> /\ cur.error = NoError

\* C4, reached: the second of two successful cycles with the empty list,
\* the first of which notified
C4_Witness ==
    /\ CycleDone /\ cur.list = "empty" /\ sent = <<>>
    /\ prev.list = "empty" /\ prev.error = NoError /\ prev.attempts = 1

\* C5: no failure of a delivery ends the loop: main is never left after a
\* cycle in which bot.send_message raised.
C5_DeliveryFailureIsolated ==
    ~(pc = "crashed" /\ prev.failures > 0)

\* C6: at the top of the loop, once a response has carried a current_date,
\* the cursor that the next get_api_answer puts in from_date is the
\* current_date of the last response that carried one.
C6_CursorFollowsCurrentDate ==
    (pc = "loop" /\ lastDate # NoDate)
        => \A now \in Times :
              Some(RequestTimestamp(current_timestamp, now)) = lastDate

\* C7: a cycle whose first item has a status outside the table takes the
\* error path.
C7_UnknownStatusIsError ==
    (pc \in {"sleep", "except"} /\ cur.list = "nonempty"
       /\ cur.status \notin KnownStatuses \cup {MISSING})
        => cur.error # NoError

\* C8: check_response fails when 'homeworks' is absent, null or not a list,
\* and returns the list as it is, empty or not, otherwise.
C8_CheckResponseShape ==
    pc = "checked" =>
        IF response.homeworks.kind = "list"
        THEN /\ result.ok /\ result.error = NoError
             /\ result.value = response.homeworks.items
        ELSE ~result.ok /\ result.error # NoError

\* C8, reached: 'homeworks': [] has been accepted, with zero items
C8_Witness ==
    /\ pc = "checked" /\ response.homeworks = [kind |-> "list", items |-> <<>>]
    /\ result.ok /\ Len(result.value) = 0

AllTokensPresent ==
    \A k \in {"PRACTICUM_TOKEN", "TELEGRAM_TOKEN", "TELEGRAM_CHAT_ID"} :
        tokens[k] # None /\ tokens[k] # ""

\* C9: with a token absent or empty, main ends in the configuration error
\* with no request issued, no message sent and no sleep; with the three
\* tokens set, check_tokens is true and main enters the loop.
C9_MissingCredentialIsFatal ==
    /\ check_tokens(tokens) <=> AllTokensPresent
    /\ ~AllTokensPresent =>
          /\ pc \in {"start", "config_error"}
          /\ from_date = NoRequest /\ sent = <<>> /\ ~slept
          /\ cur = BlankCycle
    /\ AllTokensPresent => pc # "config_error"

\* C9, reached: main has ended in the configuration error for an empty
\* chat id, the other two tokens being set
C9_Witness ==
    /\ pc = "config_error"
    /\ tokens = [PRACTICUM_TOKEN |-> "token", TELEGRAM_TOKEN |-> "token",
                 TELEGRAM_CHAT_ID |-> ""]

\* the cycle raised in get_api_answer, check_response or parse_status
RecoverableError == cur.stage \in {"fetch", "validate", "translate"}

\* a request has been issued in the cycle at hand
Fetched == pc \in {"sleep", "except"} /\ from_date # NoRequest

\* C10: once get_api_answer, check_response or parse_status has raised in a
\* cycle, either the notifier fails in that cycle or the loop comes back to
\* its top after the sleep and then fetches again; and main leaves the loop
\* only after a failure of the notifier.
C10_LoopSurvivesErrors ==
    /\ (pc = "except" /\ RecoverableError)
          ~> (pending \/ (pc = "loop" /\ slept /\ <>Fetched))
    /\ [](pc = "crashed" => prev.failures > 0)

\* C10, reached: a cycle has fetched after a cycle that failed in
\* get_api_answer and reported it
C10_Witness ==
    /\ pc \in {"sleep", "except"} /\ cur # BlankCycle
    /\ prev.error = <<"local variable 'response' referenced before assignment">>
    /\ prev.attempts = 1 /\ prev.failures = 0

\* C11: a cycle that ends in the error path leaves the cursor and status_ok
\* as they were when the cycle started.
C11_ErrorCycleKeepsState ==
    [][(pc = "loop" /\ pc' = "except")
          => (status_ok' = status_ok /\ current_timestamp' = current_timestamp)]_vars

\* the calls of the cycle that carry a verdict of the table
StatusNotifications ==
    {i \in 1..Len(sent) :
        \E st \in KnownStatuses : HOMEWORK_STATUSES[st] \in Range(sent[i].text)}

\* the texts parse_status makes of the records with this status
Translations(status) ==
    {parse_status(i).value : i \in {j \in Items : j.status = status /\ parse_status(j).ok}}

\* C12: the text of a status notification is the text parse_status returns
\* for the first item: it holds the name of the work and the verdict.
C12_NotificationIsTranslation ==
    (pc \in {"sleep", "except"} /\ cur.list = "nonempty")
        => \A i \in StatusNotifications : sent[i].text \in Translations(cur.status)

\* a record of the list lacks 'homework_name' or 'status'
Malformed(homework) == homework.homework_name = MISSING \/ homework.status = MISSING

\* C13: check_response fails for a list that holds a record without
\* 'homework_name' or without 'status'; such a list is never returned as valid.
C13_MalformedElementRejected ==
    (/\ pc = "checked"
     /\ response.homeworks.kind = "list"
     /\ \E i \in 1..Len(response.homeworks.items) :
            Malformed(response.homeworks.items[i]))
        => ~result.ok

\* the record has both entries and its status is a key of the table
Translatable(homework) ==
    /\ homework.homework_name # MISSING
    /\ homework.status \in KnownStatuses

\* C14: parse_status returns a string exactly for the records whose status
\* is reviewing, rejected or approved, and the string holds the name of the
\* work and the text of the table; for every other record (unknown status,
\* no status, no name, the empty record) it raises and returns nothing.
C14_TranslationTotalOnTable ==
    (pc = "returned" /\ args.fn = "parse_status") =>
        IF Translatable(args.homework)
        THEN /\ returned.ok
             /\ args.homework.homework_name \in Range(returned.value)
             /\ HOMEWORK_STATUSES[args.homework.status] \in Range(returned.value)
        ELSE ~returned.ok /\ returned.value = NoMessage

\* C15: get_api_answer(c) issues one request, whose from_date is c, for
\* every cursor c >= 0, zero included.
C15_FetchUsesCursor ==
    (pc = "returned" /\ args.fn = "get_api_answer") =>
        /\ fetches = 1
        /\ from_date = Some(args.current_timestamp)

\* C16: every cycle, whatever its outcome, issues one request and then
\* sleeps RETRY_TIME (600) before the next request: between two sleeps at
\* most one request is issued, a cycle that has left the try block has
\* issued one, and the loop is entered again only after sleep(600).
C16_FixedCadence ==
    /\ fetches <= 1
    /\ pc \in {"except", "sleep"} => fetches = 1
    /\ pc \in {"loop", "crashed"} => fetches = 0
    /\ (pc \in {"loop", "crashed"} /\ prev # NoCycle)
          => (slept /\ slept_for = Some(RETRY_TIME) /\ RETRY_TIME = 600)

\* C16, reached: a cycle that failed has slept and the loop is entered again
C16_Witness ==
    /\ pc = "loop" /\ prev.error # NoError
    /\ fetches = 0 /\ slept_for = Some(RETRY_TIME)

\* what the body of the try statement does with the list of the one element
\* the list of the call starts with
FirstAlone ==
    Inspect(<<args.homeworks[1]>>, args.status_non, args.status_ok,
            args.delivered)

\* C17: two non-empty lists with the same first element, met in the same
\* loop state, give the same notification (or none) and the same loop state
\* afterwards: each list gives what the list of its first element alone
\* gives, so any two lists that start alike give the same.
C17_OnlyFirstItemMatters ==
    (pc = "returned" /\ args.fn = "try_body" /\ Len(args.homeworks) > 0)
        => returned = FirstAlone

\* C17, reached: a list whose second element has another status than the
\* first has been handled and the verdict of the first has been sent
C17_Witness ==
    /\ pc = "returned" /\ args.fn = "try_body" /\ Len(args.homeworks) = 2
    /\ args.homeworks[1].status = "reviewing"
    /\ args.homeworks[2].status = "approved"
    /\ args.status_ok = None
    /\ Len(returned.sent) = 1
    /\ returned.sent[1].text = VerdictText("reviewing")
    /\ returned.status_ok = "reviewing"

\* the cycle has got a list whose first record has a status of the table
SawKnownStatus(c) == c.list = "nonempty" /\ c.status \in KnownStatuses

\* C18: the status of the first record, when it is of the table, is in
\* status_ok once the try block is left, also when parse_status or
\* send_message raised; and a cycle that follows a cycle with the same
\* status attempts no status notification, whether the earlier delivery
\* failed or not.
C18_RecordedBeforeDelivered ==
    pc \in {"except", "sleep"} =>
        /\ SawKnownStatus(cur) => status_ok = cur.status
        /\ (SawKnownStatus(cur) /\ SawKnownStatus(prev)
              /\ cur.status = prev.status)
                => (StatusNotifications = {} /\ cur.error = NoError)

\* C18, reached: the cycle before raised on a new status, with a delivery
\* that failed, and the cycle at hand saw the same status and sent nothing
C18_Witness ==
    /\ pc = "sleep"
    /\ SawKnownStatus(prev) /\ prev.error # NoError /\ prev.failures = 1
    /\ SawKnownStatus(cur) /\ cur.status = prev.status
    /\ status_ok = cur.status
    /\ sent = <<>>

\* the 'not under review' notifications among the calls
NotUnderReviewNotifications(calls) ==
    {i \in 1..Len(calls) : calls[i].text = NotUnderReviewText(<<>>)}

\* C19: status_non, once recorded, is never changed again, and a cycle that
\* starts with it recorded attempts no 'not under review' notification,
\* whatever lists came in between; a cycle on an empty list leaves
\* status_ok alone and a cycle on a non-empty list leaves status_non alone.
C19_TrackersIndependent ==
    [][/\ status_non # NoMessage => status_non' = status_non
       /\ pc = "loop" =>
            /\ status_non # NoMessage => NotUnderReviewNotifications(sent') = {}
            /\ cur'.list = "empty" => status_ok' = status_ok
            /\ cur'.list = "nonempty" => status_non' = status_non]_vars

\* C19, reached: an empty list after a non-empty one, with status_non
\* recorded earlier and a status recorded since: nothing is sent
C19_Witness ==
    /\ pc = "sleep"
    /\ cur.list = "empty" /\ prev.list = "nonempty"
    /\ status_non # NoMessage /\ status_ok \in KnownStatuses
    /\ sent = <<>>

\* C20: status_ok is None or one of reviewing, rejected, approved; a status
\* that is not of the table is never stored in it.
C20_StatusOkRecognized ==
    status_ok \in KnownStatuses \cup {None}

\* C20, reached: a cycle has met a status that is not of the table while
\* status_ok holds an earlier status, and status_ok has kept it
C20_Witness ==
    /\ pc = "sleep"
    /\ cur.list = "nonempty" /\ cur.status = "archived"
    /\ SawKnownStatus(prev) /\ status_ok = prev.status

====
